---- MODULE Spec2Model ----
(***************************************************************************)
(* Model of the LogNarrator Go collector: the encryption engine            *)
(* (package encryption: NewEncryptor, Encrypt, Decrypt) and the cloud      *)
(* exporter (package exporter: ConsumeLogs).                               *)
(*                                                                         *)
(* Byte strings are sequences of integers 0..255.  Go strings holding      *)
(* base64 text are sequences of ASCII codes, so that a bit of the text can *)
(* be flipped and the decoder's alphabet check is exercised.               *)
(***************************************************************************)
EXTENDS Integers, Sequences, FiniteSets, TLC

VARIABLES
    encryptor,  \* the *Encryptor the program holds (NilPtr when none)
    randReads,  \* number of crypto/rand reads made so far
    input,      \* sealing harness: the byte string handed to Encrypt
    sealLog,    \* sealing harness: what each Encrypt call returned
    lastOpen,   \* sealing harness: what the latest Decrypt call returned
    endpoint,   \* the responses the remote endpoint gives to the next requests
    calls,      \* one frame per ConsumeLogs invocation
    sent,       \* HTTP requests put on the wire, in order
    received,   \* requests the endpoint answered, in order
    file,       \* configuration: what is at the path given to LoadConfig
    loaded,     \* configuration: what LoadConfig returned
    client,     \* configuration: the http.Client NewCloudExporter built
    logs,       \* conversion: the plog.Logs handed to logsToJSON
    jsonOut,    \* conversion: what logsToJSON returned
    registry,   \* collector: the receivers, processors and exporters maps
    runPc,      \* collector: where run and Collector.Shutdown stand
    ctxDone,    \* collector: whether the context of run is cancelled
    shutLog,    \* collector: the Shutdown calls made on components, in order
    shutRet     \* collector: what Collector.Shutdown returned (NilPtr before)

vars == <<encryptor, randReads, input, sealLog, lastOpen,
          endpoint, calls, sent, received,
          file, loaded, client, logs, jsonOut,
          registry, runPc, ctxDone, shutLog, shutRet>>

sealVars == <<input, sealLog, lastOpen>>
exportVars == <<endpoint, calls, sent, received>>
configVars == <<file, loaded, client>>
logsVars == <<logs, jsonOut>>
runVars == <<registry, runPc, ctxDone, shutLog, shutRet>>

----------------------------------------------------------------------------
(* Bounds *)

MaxLen == 3        \* longest byte string handed to Encrypt in the harness
MaxEncrypts == 2   \* Encrypt calls per behaviour of the harness
MaxCalls == 2      \* ConsumeLogs invocations per behaviour
MaxScript == 2     \* scripted endpoint responses (200 once exhausted)
MaxLogLen == 1     \* longest batch body handed to the exporter

Bytes == {0, 77, 255}     \* byte values of the inputs of Encrypt
LogBytes == {123}         \* byte values of the batch bodies of the exporter
UnixTimes == {1700000000} \* what time.Now().Unix() returns

RECURSIVE SeqsUpTo(_, _)
SeqsUpTo(S, n) ==
    IF n = 0 THEN {<<>>}
    ELSE LET shorter == SeqsUpTo(S, n - 1)
         IN  shorter \cup {Append(s, x) : s \in {t \in shorter : Len(t) = n - 1}, x \in S}

----------------------------------------------------------------------------
(* encoding/base64, StdEncoding *)

\* the standard alphabet: index 0..63 -> ASCII code
encodeStd(v) ==
    IF v < 26 THEN 65 + v
    ELSE IF v < 52 THEN 97 + (v - 26)
    ELSE IF v < 62 THEN 48 + (v - 52)
    ELSE IF v = 62 THEN 43
    ELSE 47

\* decodeMap: ASCII code -> index 0..63, or -1 for a byte outside the alphabet
decodeMap(c) ==
    IF c >= 65 /\ c <= 90 THEN c - 65
    ELSE IF c >= 97 /\ c <= 122 THEN c - 97 + 26
    ELSE IF c >= 48 /\ c <= 57 THEN c - 48 + 52
    ELSE IF c = 43 THEN 62
    ELSE IF c = 47 THEN 63
    ELSE -1

EncodedLen(n) == ((n + 2) \div 3) * 4

RECURSIVE EncodeToString(_)
EncodeToString(src) ==
    IF Len(src) = 0 THEN <<>>
    ELSE IF Len(src) = 1 THEN
        <<encodeStd(src[1] \div 4), encodeStd((src[1] % 4) * 16), 61, 61>>
    ELSE IF Len(src) = 2 THEN
        <<encodeStd(src[1] \div 4),
          encodeStd((src[1] % 4) * 16 + src[2] \div 16),
          encodeStd((src[2] % 16) * 4), 61>>
    ELSE
        <<encodeStd(src[1] \div 4),
          encodeStd((src[1] % 4) * 16 + src[2] \div 16),
          encodeStd((src[2] % 16) * 4 + src[3] \div 64),
          encodeStd(src[3] % 64)>>
        \o EncodeToString(SubSeq(src, 4, Len(src)))

\* the decoder skips '\n' and '\r' wherever they stand
StripNewlines(s) == SelectSeq(s, LAMBDA c : c # 10 /\ c # 13)

CorruptInput == [ok |-> FALSE, bytes |-> <<>>]

\* decodeQuantum, repeated: t has no newline left
RECURSIVE DecodeQuanta(_)
DecodeQuanta(t) ==
    IF Len(t) = 0 THEN [ok |-> TRUE, bytes |-> <<>>]
    ELSE IF Len(t) < 4 THEN CorruptInput
    ELSE LET a == decodeMap(t[1])
             b == decodeMap(t[2])
             c == decodeMap(t[3])
             d == decodeMap(t[4])
         IN  IF a < 0 \/ b < 0 THEN CorruptInput
             ELSE IF c < 0 THEN
                 \* padding in the third place needs "==" and the end of input
                 IF t[3] = 61 /\ t[4] = 61 /\ Len(t) = 4
                 THEN [ok |-> TRUE, bytes |-> <<a * 4 + b \div 16>>]
                 ELSE CorruptInput
             ELSE IF d < 0 THEN
                 IF t[4] = 61 /\ Len(t) = 4
                 THEN [ok |-> TRUE,
                       bytes |-> <<a * 4 + b \div 16, (b % 16) * 16 + c \div 4>>]
                 ELSE CorruptInput
             ELSE LET rest == DecodeQuanta(SubSeq(t, 5, Len(t)))
                  IN  IF rest.ok
                      THEN [ok |-> TRUE,
                            bytes |-> <<a * 4 + b \div 16,
                                        (b % 16) * 16 + c \div 4,
                                        (c % 4) * 64 + d>> \o rest.bytes]
                      ELSE CorruptInput

DecodeString(s) == DecodeQuanta(StripNewlines(s))

----------------------------------------------------------------------------
(* package config: the encryption settings the engine is built from *)

ValidAlgorithms == {"XChaCha20-Poly1305", "AES-256-GCM"}

EncryptionConfig ==
    [Enabled : BOOLEAN, KeyPath : {"client.key"}, Algorithm : ValidAlgorithms,
     ClientID : {"client-1"}, Compression : BOOLEAN]

----------------------------------------------------------------------------
(* package encryption *)

NilPtr == [nil |-> TRUE]
NoErr == [msg |-> "nil", arg |-> 0]
Errorf(msg, arg) == [msg |-> msg, arg |-> arg]

\* the contents of the key file at cfg.KeyPath
PrivateKeyFile == <<77, 255>>

NewEncryptor(cfg) ==
    IF ~cfg.Enabled
    THEN [cfg |-> cfg, privateKey |-> <<>>, clientID |-> ""]
    ELSE [cfg |-> cfg, privateKey |-> PrivateKeyFile, clientID |-> cfg.ClientID]

NonceSize == 24
FormatVersion == 1

\* crypto/rand is an ideal source: read number n returns block n of the
\* entropy stream, and the blocks are pairwise distinct.  rnd.ok = FALSE is a
\* read that returned an error.
RandRead(size, rnd) == [size |-> size, block |-> rnd.draw]

\* Encrypt sealing every envelope under the block of the first read
EncryptStaleNonce(e, data, now, rnd) ==
    IF ~e.cfg.Enabled THEN [err |-> Errorf("encryption is disabled", 0), env |-> NilPtr]
    ELSE IF ~rnd.ok THEN [err |-> Errorf("failed to generate nonce", 0), env |-> NilPtr]
    ELSE [err |-> NoErr,
          env |-> [ClientID   |-> e.clientID,
                   Timestamp  |-> now,
                   Version    |-> FormatVersion,
                   Algorithm  |-> e.cfg.Algorithm,
                   Compressed |-> e.cfg.Compression,
                   Nonce      |-> [base64Len |-> EncodedLen(NonceSize),
                                   bytes |-> RandRead(NonceSize, [ok |-> TRUE, draw |-> 1])],
                   Data       |-> EncodeToString(data)]]

\* Encrypt putting the private key in front of the data it encodes
EncryptKeyPrefixed(e, data, now, rnd) ==
    IF ~e.cfg.Enabled THEN [err |-> Errorf("encryption is disabled", 0), env |-> NilPtr]
    ELSE IF ~rnd.ok THEN [err |-> Errorf("failed to generate nonce", 0), env |-> NilPtr]
    ELSE [err |-> NoErr,
          env |-> [ClientID   |-> e.clientID,
                   Timestamp  |-> now,
                   Version    |-> FormatVersion,
                   Algorithm  |-> e.cfg.Algorithm,
                   Compressed |-> e.cfg.Compression,
                   Nonce      |-> [base64Len |-> EncodedLen(NonceSize),
                                   bytes |-> RandRead(NonceSize, rnd)],
                   Data       |-> EncodeToString(e.privateKey \o data)]]

\* Encrypt sealing whether or not encryption is enabled
EncryptUnchecked(e, data, now, rnd) ==
    IF ~rnd.ok THEN [err |-> Errorf("failed to generate nonce", 0), env |-> NilPtr]
    ELSE [err |-> NoErr,
          env |-> [ClientID   |-> e.clientID,
                   Timestamp  |-> now,
                   Version    |-> FormatVersion,
                   Algorithm  |-> e.cfg.Algorithm,
                   Compressed |-> e.cfg.Compression,
                   \* the Nonce string is the base64 text of the bytes read
                   Nonce      |-> [base64Len |-> EncodedLen(NonceSize),
                                   bytes |-> RandRead(NonceSize, rnd)],
                   \* placeholder sealing: the data in base64
                   Data       |-> EncodeToString(data)]]

Encrypt(e, data, now, rnd) ==
    IF ~e.cfg.Enabled THEN [err |-> Errorf("encryption is disabled", 0), env |-> NilPtr]
    ELSE IF ~rnd.ok THEN [err |-> Errorf("failed to generate nonce", 0), env |-> NilPtr]
    ELSE [err |-> NoErr,
          env |-> [ClientID   |-> e.clientID,
                   Timestamp  |-> now,
                   Version    |-> FormatVersion,
                   Algorithm  |-> e.cfg.Algorithm,
                   Compressed |-> e.cfg.Compression,
                   \* the Nonce string is the base64 text of the bytes read
                   Nonce      |-> [base64Len |-> EncodedLen(NonceSize),
                                   bytes |-> RandRead(NonceSize, rnd)],
                   \* placeholder sealing: the data in base64
                   Data       |-> EncodeToString(data)]]

\* Encrypt reads crypto/rand once, and only when encryption is enabled
RandReadsAfterEncrypt(e, reads) == IF e.cfg.Enabled THEN reads + 1 ELSE reads

\* Decrypt dropping the bytes of a padded final quantum
DecryptTruncating(e, encData) ==
    IF ~e.cfg.Enabled THEN [err |-> Errorf("encryption is disabled", 0), data |-> <<>>]
    ELSE LET dec == DecodeString(encData.Data)
         IN  IF ~dec.ok THEN [err |-> Errorf("failed to decode data", 0), data |-> <<>>]
             ELSE [err |-> NoErr,
                   data |-> SubSeq(dec.bytes, 1, (Len(dec.bytes) \div 3) * 3)]

Decrypt(e, encData) ==
    IF ~e.cfg.Enabled THEN [err |-> Errorf("encryption is disabled", 0), data |-> <<>>]
    ELSE LET dec == DecodeString(encData.Data)
         IN  IF ~dec.ok THEN [err |-> Errorf("failed to decode data", 0), data |-> <<>>]
             \* encData.Compressed selects an empty branch; Algorithm, Version
             \* and Nonce are not read
             ELSE [err |-> NoErr, data |-> dec.bytes]

----------------------------------------------------------------------------
(* Sealing harness: Init draws the input, the actions apply Encrypt and    *)
(* Decrypt to it.  Decrypt reads and writes no state of the Encryptor, so   *)
(* one Decrypt per behaviour, of any envelope, covers every Decrypt.       *)

\* the parts of the state a specification does not exercise stay as they are
\* before anything ran: no configuration read, no logs converted, and the
\* empty maps NewCollector makes
EmptyRegistry == [receivers |-> {}, processors |-> {}, exporters |-> {}]
ConfigIdle == file = NilPtr /\ loaded = NilPtr /\ client = NilPtr
LogsIdle == logs = <<>> /\ jsonOut = NilPtr
RunIdle ==
    /\ registry = EmptyRegistry /\ runPc = "idle" /\ ctxDone = FALSE
    /\ shutLog = <<>> /\ shutRet = NilPtr

NoOpen == [src |-> 0, how |-> "none", env |-> NilPtr, r |-> [err |-> NoErr, data |-> <<>>]]

InitSeal ==
    /\ encryptor \in {NewEncryptor(cfg) : cfg \in EncryptionConfig}
    /\ randReads = 0
    /\ input \in SeqsUpTo(Bytes, MaxLen)
    /\ sealLog = <<>>
    /\ lastOpen = NoOpen
    /\ endpoint = <<>>
    /\ calls = <<>>
    /\ sent = <<>>
    /\ received = <<>>
    /\ ConfigIdle /\ LogsIdle /\ RunIdle

\* one call of Encrypt on the input
DoEncrypt ==
    /\ Len(sealLog) < MaxEncrypts
    /\ \E ok \in BOOLEAN, now \in UnixTimes :
          sealLog' = Append(sealLog,
                        [data |-> input,
                         r |-> Encrypt(encryptor, input, now,
                                       [ok |-> ok, draw |-> randReads + 1])])
    /\ randReads' = RandReadsAfterEncrypt(encryptor, randReads)
    /\ UNCHANGED <<encryptor, input, lastOpen>>
    /\ UNCHANGED <<exportVars, configVars, logsVars, runVars>>

Sealed == {i \in DOMAIN sealLog : sealLog[i].r.err = NoErr}

\* Decrypt of an envelope exactly as Encrypt returned it
DoDecrypt ==
    /\ lastOpen = NoOpen
    /\ \E i \in Sealed :
          lastOpen' = [src |-> i, how |-> "intact", env |-> sealLog[i].r.env,
                       r |-> Decrypt(encryptor, sealLog[i].r.env)]
    /\ UNCHANGED <<encryptor, randReads, input, sealLog>>
    /\ UNCHANGED <<exportVars, configVars, logsVars, runVars>>

\* c with bit k (0..7) inverted
FlipBit(c, k) == IF (c \div (2 ^ k)) % 2 = 1 THEN c - 2 ^ k ELSE c + 2 ^ k

\* Decrypt of an envelope whose payload text had one bit inverted on the way
DoDecryptMutated ==
    /\ lastOpen = NoOpen
    /\ \E i \in Sealed :
          \E pos \in DOMAIN sealLog[i].r.env.Data, k \in 0..7 :
             LET e0 == sealLog[i].r.env
                 e1 == [e0 EXCEPT !.Data[pos] = FlipBit(e0.Data[pos], k)]
             IN  lastOpen' = [src |-> i, how |-> "mutated", env |-> e1,
                              r |-> Decrypt(encryptor, e1)]
    /\ UNCHANGED <<encryptor, randReads, input, sealLog>>
    /\ UNCHANGED <<exportVars, configVars, logsVars, runVars>>

WireAlgorithms == ValidAlgorithms \cup {"nacl.signing", "rot13"}
WireVersions == {0, FormatVersion, 2}

\* Decrypt of an envelope whose algorithm and version were set by the sender
DoDecryptRelabelled ==
    /\ lastOpen = NoOpen
    /\ \E i \in Sealed :
          \E alg \in WireAlgorithms, ver \in WireVersions :
             LET e0 == sealLog[i].r.env
                 e1 == [e0 EXCEPT !.Algorithm = alg, !.Version = ver]
             IN  /\ e1 # e0
                 /\ lastOpen' = [src |-> i, how |-> "relabelled", env |-> e1,
                                 r |-> Decrypt(encryptor, e1)]
    /\ UNCHANGED <<encryptor, randReads, input, sealLog>>
    /\ UNCHANGED <<exportVars, configVars, logsVars, runVars>>

NextSeal ==
    \/ DoEncrypt
    \/ DoDecrypt
    \/ DoDecryptMutated
    \/ DoDecryptRelabelled

SpecSeal == InitSeal /\ [][NextSeal]_vars

----------------------------------------------------------------------------
(* package exporter *)

RetryMaxCount == 5      \* ExporterConfig.RetryMaxCount default; ConsumeLogs never reads it
ErrorStatusFloor == 400

\* what client.Do can come back with: 0 is a non-nil error from Do (connection
\* error or timeout, no response), anything else the status of the response
NetErr == 0
Responses == {NetErr, 200, 304, 404, 503}

ContentTypeSealed == "application/json+encrypted"
ContentTypeRaw == "application/json"
UserAgent == "LogNarrator-Collector/0.1.0"

\* json.Marshal of an EncryptedData: the JSON object, its keys the struct tags
MarshalEncryptedData(env) ==
    [clientId   |-> env.ClientID,
     timestamp  |-> env.Timestamp,
     version    |-> env.Version,
     algorithm  |-> env.Algorithm,
     nonce      |-> env.Nonce,
     data       |-> env.Data,
     compressed |-> env.Compressed]

\* the sealed envelope is sent with the content type of the raw batch
BuildRequestPlainType(enc, logData, now, rnd) ==
    IF enc # NilPtr
    THEN LET r == Encrypt(enc, logData, now, rnd)
         IN  IF r.err # NoErr
             THEN [sealErr |-> r.err,
                   err |-> Errorf("failed to encrypt logs", r.err.msg),
                   contentType |-> "", body |-> NilPtr]
             ELSE [sealErr |-> NoErr, err |-> NoErr,
                   contentType |-> ContentTypeRaw,
                   body |-> [sealed |-> TRUE, envelope |-> r.env,
                             json |-> MarshalEncryptedData(r.env)]]
    ELSE [sealErr |-> NoErr, err |-> NoErr,
          contentType |-> ContentTypeRaw,
          body |-> [sealed |-> FALSE, raw |-> logData]]

\* the unsealed batch is sent with the plain content type when Encrypt fails
BuildRequestFallback(enc, logData, now, rnd) ==
    IF enc # NilPtr
    THEN LET r == Encrypt(enc, logData, now, rnd)
         IN  IF r.err # NoErr
             THEN [sealErr |-> r.err, err |-> NoErr,
                   contentType |-> ContentTypeRaw,
                   body |-> [sealed |-> FALSE, raw |-> logData]]
             ELSE [sealErr |-> NoErr, err |-> NoErr,
                   contentType |-> ContentTypeSealed,
                   body |-> [sealed |-> TRUE, envelope |-> r.env,
                             json |-> MarshalEncryptedData(r.env)]]
    ELSE [sealErr |-> NoErr, err |-> NoErr,
          contentType |-> ContentTypeRaw,
          body |-> [sealed |-> FALSE, raw |-> logData]]

\* ConsumeLogs up to the request it hands to client.Do: sealErr is what
\* Encrypt returned, err what ConsumeLogs returns before sending (NoErr when
\* it goes on to send).  The body of a sealed request is the JSON object of
\* the EncryptedData struct, kept as the record of its fields.
BuildRequest(enc, logData, now, rnd) ==
    IF enc # NilPtr
    THEN LET r == Encrypt(enc, logData, now, rnd)
         IN  IF r.err # NoErr
             THEN [sealErr |-> r.err,
                   err |-> Errorf("failed to encrypt logs", r.err.msg),
                   contentType |-> "", body |-> NilPtr]
             ELSE [sealErr |-> NoErr, err |-> NoErr,
                   contentType |-> ContentTypeSealed,
                   body |-> [sealed |-> TRUE, envelope |-> r.env,
                             json |-> MarshalEncryptedData(r.env)]]
    ELSE [sealErr |-> NoErr, err |-> NoErr,
          contentType |-> ContentTypeRaw,
          body |-> [sealed |-> FALSE, raw |-> logData]]

\* ConsumeLogs after client.Do came back: the error it returns
DoResult(resp) ==
    IF resp = NetErr THEN Errorf("failed to send logs", 0)
    ELSE IF resp >= ErrorStatusFloor THEN Errorf("server returned error", resp)
    ELSE NoErr

\* the program as main wires it: the exporter is given the Encryptor that
\* NewEncryptor returned, which is never nil
InitExport ==
    /\ encryptor \in {NewEncryptor(cfg) : cfg \in EncryptionConfig}
    /\ randReads = 0
    /\ input = <<>>
    /\ sealLog = <<>>
    /\ lastOpen = NoOpen
    /\ endpoint \in SeqsUpTo(Responses, MaxScript)
    /\ calls = <<>>
    /\ sent = <<>>
    /\ received = <<>>
    /\ ConfigIdle /\ LogsIdle /\ RunIdle

\* ConsumeLogs moving the resource logs out of the value it was given
ConsumeLogsDraining ==
    /\ Len(calls) < MaxCalls
    /\ \E logData \in SeqsUpTo(LogBytes, MaxLogLen), ok \in BOOLEAN, now \in UnixTimes :
          LET id == Len(calls) + 1
              b == BuildRequest(encryptor, logData, now,
                                [ok |-> ok, draw |-> randReads + 1])
          IN  IF b.err # NoErr
              THEN /\ calls' = Append(calls, [logData |-> logData, pc |-> "done",
                                              sealErr |-> b.sealErr, err |-> b.err,
                                              resp |-> NetErr])
                   /\ sent' = sent
              ELSE /\ calls' = Append(calls, [logData |-> logData, pc |-> "do",
                                              sealErr |-> b.sealErr, err |-> NoErr,
                                              resp |-> NetErr])
                   /\ sent' = Append(sent, [call |-> id, method |-> "POST",
                                            contentType |-> b.contentType,
                                            userAgent |-> UserAgent,
                                            body |-> b.body])
    /\ randReads' = IF encryptor = NilPtr THEN randReads
                    ELSE RandReadsAfterEncrypt(encryptor, randReads)
    /\ UNCHANGED <<encryptor, endpoint, received>>
    /\ logs' = <<>>
    /\ UNCHANGED <<jsonOut, sealVars, configVars, runVars>>

\* ConsumeLogs from its entry to the call of client.Do, or to its return when
\* sealing fails.  logData is the JSON text logsToJSON made of the logs.
ConsumeLogs ==
    /\ Len(calls) < MaxCalls
    /\ \E logData \in SeqsUpTo(LogBytes, MaxLogLen), ok \in BOOLEAN, now \in UnixTimes :
          LET id == Len(calls) + 1
              b == BuildRequest(encryptor, logData, now,
                                [ok |-> ok, draw |-> randReads + 1])
          IN  IF b.err # NoErr
              THEN /\ calls' = Append(calls, [logData |-> logData, pc |-> "done",
                                              sealErr |-> b.sealErr, err |-> b.err,
                                              resp |-> NetErr])
                   /\ sent' = sent
              ELSE /\ calls' = Append(calls, [logData |-> logData, pc |-> "do",
                                              sealErr |-> b.sealErr, err |-> NoErr,
                                              resp |-> NetErr])
                   /\ sent' = Append(sent, [call |-> id, method |-> "POST",
                                            contentType |-> b.contentType,
                                            userAgent |-> UserAgent,
                                            body |-> b.body])
    /\ randReads' = IF encryptor = NilPtr THEN randReads
                    ELSE RandReadsAfterEncrypt(encryptor, randReads)
    /\ UNCHANGED <<encryptor, endpoint, received>>
    /\ UNCHANGED <<sealVars, configVars, logsVars, runVars>>

\* the answer of the endpoint to its next request
NextResponse == IF endpoint = <<>> THEN 200 ELSE Head(endpoint)

\* client.Do comes back in call c and ConsumeLogs runs to its return
ClientDo ==
    /\ \E c \in DOMAIN calls :
          /\ calls[c].pc = "do"
          /\ calls' = [calls EXCEPT ![c].pc = "done",
                                    ![c].resp = NextResponse,
                                    ![c].err = DoResult(NextResponse)]
          /\ received' = IF NextResponse = NetErr THEN received
                         ELSE Append(received, [call |-> c, status |-> NextResponse])
    /\ endpoint' = IF endpoint = <<>> THEN endpoint ELSE Tail(endpoint)
    /\ UNCHANGED <<encryptor, randReads, sent>>
    /\ UNCHANGED <<sealVars, configVars, logsVars, runVars>>

Next ==
    \/ ConsumeLogs
    \/ ClientDo

Spec == InitExport /\ [][Next]_vars

\* the exporter built directly: NewCloudExporter takes any *Encryptor, nil
\* included, and ConsumeLogs then sends the batch unsealed
InitDirect ==
    /\ encryptor \in {NilPtr} \cup {NewEncryptor(cfg) : cfg \in EncryptionConfig}
    /\ randReads = 0
    /\ input = <<>>
    /\ sealLog = <<>>
    /\ lastOpen = NoOpen
    /\ endpoint \in SeqsUpTo(Responses, MaxScript)
    /\ calls = <<>> /\ sent = <<>> /\ received = <<>>
    /\ ConfigIdle /\ LogsIdle /\ RunIdle

SpecDirect == InitDirect /\ [][Next]_vars

----------------------------------------------------------------------------
(* package config: LoadConfig, applyDefaults, validateConfig *)

\* strings.EqualFold on the strings of this model: equal after case folding
Fold(str) ==
    IF str = "XChaCha20-Poly1305" THEN "xchacha20-poly1305"
    ELSE IF str = "AES-256-GCM" THEN "aes-256-gcm"
    ELSE str
EqualFold(a, b) == Fold(a) = Fold(b)

\* what yaml.Unmarshal makes of the file: a setting the file leaves out has
\* the zero value of its type
FileAlgorithms == {"", "XChaCha20-Poly1305", "aes-256-gcm", "AES-256-GCM", "nacl.signing"}
FileTimeouts == {-1, 0, 5}
EncryptionYaml ==
    [Enabled : BOOLEAN, KeyPath : {"", "client.key"}, KeyRotation : {0, 7},
     Algorithm : FileAlgorithms, ClientID : {"", "client-1"},
     Compression : {FALSE}, BufferSizeMB : {0}]
ExporterYaml ==
    [Endpoint : {"", "https://logs.example/api/v1/logs"}, Timeout : FileTimeouts,
     RetryMaxCount : {0, 3}, RetryDelaySec : {0}, BatchSize : {0},
     MaxQueueSize : {0}, TLSCertPath : {""}, TLSVerify : BOOLEAN,
     LocalCachePath : {""}]
PipelinesYaml ==
    { <<>>,
      [p \in {"logs"} |-> [Receivers |-> <<>>]],
      [p \in {"logs"} |-> [Receivers |-> <<"journald">>]],
      [p \in {"logs", "audit"} |->
          [Receivers |-> IF p = "logs" THEN <<"journald">> ELSE <<>>]] }
ConfigYaml ==
    [Encryption : EncryptionYaml, Exporter : ExporterYaml,
     Collector : [Pipelines : PipelinesYaml]]
Files ==
    {[kind |-> "unreadable"], [kind |-> "garbled"]}
    \cup {[kind |-> "yaml", config |-> c] : c \in ConfigYaml}

\* applyDefaults leaving tlsVerify as the file gives it
applyDefaultsKeepingTLS(config) ==
    [config EXCEPT
        !.Encryption.KeyRotation = IF @ = 0 THEN 30 ELSE @,
        !.Encryption.Algorithm = IF @ = "" THEN "XChaCha20-Poly1305" ELSE @,
        !.Encryption.BufferSizeMB = IF @ = 0 THEN 100 ELSE @,
        !.Exporter.Timeout = IF @ = 0 THEN 30 ELSE @,
        !.Exporter.RetryMaxCount = IF @ = 0 THEN RetryMaxCount ELSE @,
        !.Exporter.RetryDelaySec = IF @ = 0 THEN 10 ELSE @,
        !.Exporter.BatchSize = IF @ = 0 THEN 100 ELSE @,
        !.Exporter.MaxQueueSize = IF @ = 0 THEN 10000 ELSE @]

applyDefaults(config) ==
    [config EXCEPT
        !.Encryption.KeyRotation = IF @ = 0 THEN 30 ELSE @,
        !.Encryption.Algorithm = IF @ = "" THEN "XChaCha20-Poly1305" ELSE @,
        !.Encryption.BufferSizeMB = IF @ = 0 THEN 100 ELSE @,
        !.Exporter.Timeout = IF @ = 0 THEN 30 ELSE @,
        !.Exporter.RetryMaxCount = IF @ = 0 THEN RetryMaxCount ELSE @,
        !.Exporter.RetryDelaySec = IF @ = 0 THEN 10 ELSE @,
        !.Exporter.BatchSize = IF @ = 0 THEN 100 ELSE @,
        !.Exporter.MaxQueueSize = IF @ = 0 THEN 10000 ELSE @,
        !.Exporter.TLSVerify = IF @ = FALSE THEN TRUE ELSE @]

\* validateConfig without the check of encryption.clientId
validateConfigNoClientID(config) ==
    IF /\ config.Encryption.Enabled
       /\ config.Encryption.KeyPath = ""
    THEN Errorf("encryption.keyPath is required when encryption is enabled", 0)
    ELSE IF /\ config.Encryption.Enabled
            /\ ~\E alg \in ValidAlgorithms : EqualFold(config.Encryption.Algorithm, alg)
    THEN Errorf("unsupported encryption algorithm", config.Encryption.Algorithm)
    ELSE IF config.Exporter.Endpoint = ""
    THEN Errorf("exporter.endpoint is required", 0)
    ELSE IF DOMAIN config.Collector.Pipelines = {}
    THEN Errorf("at least one collector pipeline must be defined", 0)
    ELSE IF \E name \in DOMAIN config.Collector.Pipelines :
                Len(config.Collector.Pipelines[name].Receivers) = 0
    THEN Errorf("pipeline must have at least one receiver", 0)
    ELSE NoErr

\* validateConfig checking the receivers of no pipeline
validateConfigNoReceivers(config) ==
    IF /\ config.Encryption.Enabled
       /\ config.Encryption.KeyPath = ""
    THEN Errorf("encryption.keyPath is required when encryption is enabled", 0)
    ELSE IF /\ config.Encryption.Enabled
            /\ ~\E alg \in ValidAlgorithms : EqualFold(config.Encryption.Algorithm, alg)
    THEN Errorf("unsupported encryption algorithm", config.Encryption.Algorithm)
    ELSE IF /\ config.Encryption.Enabled
            /\ config.Encryption.ClientID = ""
    THEN Errorf("encryption.clientId is required when encryption is enabled", 0)
    ELSE IF config.Exporter.Endpoint = ""
    THEN Errorf("exporter.endpoint is required", 0)
    ELSE IF DOMAIN config.Collector.Pipelines = {}
    THEN Errorf("at least one collector pipeline must be defined", 0)
    ELSE NoErr

\* the error validateConfig returns, NoErr for nil.  The message about a
\* pipeline names the first offending pipeline the map iteration meets; the
\* name is left out here.
validateConfig(config) ==
    IF /\ config.Encryption.Enabled
       /\ config.Encryption.KeyPath = ""
    THEN Errorf("encryption.keyPath is required when encryption is enabled", 0)
    ELSE IF /\ config.Encryption.Enabled
            /\ ~\E alg \in ValidAlgorithms : EqualFold(config.Encryption.Algorithm, alg)
    THEN Errorf("unsupported encryption algorithm", config.Encryption.Algorithm)
    ELSE IF /\ config.Encryption.Enabled
            /\ config.Encryption.ClientID = ""
    THEN Errorf("encryption.clientId is required when encryption is enabled", 0)
    ELSE IF config.Exporter.Endpoint = ""
    THEN Errorf("exporter.endpoint is required", 0)
    ELSE IF DOMAIN config.Collector.Pipelines = {}
    THEN Errorf("at least one collector pipeline must be defined", 0)
    ELSE IF \E name \in DOMAIN config.Collector.Pipelines :
                Len(config.Collector.Pipelines[name].Receivers) = 0
    THEN Errorf("pipeline must have at least one receiver", 0)
    ELSE NoErr

LoadConfig(f) ==
    IF f.kind = "unreadable"
    THEN [err |-> Errorf("failed to read config file", 0), config |-> NilPtr]
    ELSE IF f.kind = "garbled"
    THEN [err |-> Errorf("failed to parse config", 0), config |-> NilPtr]
    ELSE LET config == applyDefaults(f.config)
             verr == validateConfig(config)
         IN  IF verr # NoErr
             THEN [err |-> Errorf("invalid configuration", verr.msg), config |-> NilPtr]
             ELSE [err |-> NoErr, config |-> config]

\* NewCloudExporter: the http.Client it builds.  Timeout is the Duration
\* time.Duration(cfg.Timeout) * time.Second, kept in seconds.
NewCloudExporter(cfg) == [Timeout |-> cfg.Timeout]

\* net/http: a Client whose Timeout is positive gives every request a
\* deadline; a Timeout that is zero or negative sets none
ClientDeadline(c) ==
    IF c.Timeout > 0 THEN [bounded |-> TRUE, seconds |-> c.Timeout]
    ELSE [bounded |-> FALSE, seconds |-> 0]

InitConfig ==
    /\ encryptor = NilPtr
    /\ randReads = 0
    /\ input = <<>> /\ sealLog = <<>> /\ lastOpen = NoOpen
    /\ endpoint = <<>> /\ calls = <<>> /\ sent = <<>> /\ received = <<>>
    /\ file \in Files
    /\ loaded = NilPtr
    /\ client = NilPtr
    /\ LogsIdle /\ RunIdle

\* run: config.LoadConfig(configPath)
DoLoadConfig ==
    /\ loaded = NilPtr
    /\ loaded' = LoadConfig(file)
    /\ UNCHANGED <<encryptor, randReads, file, client>>
    /\ UNCHANGED <<sealVars, exportVars, logsVars, runVars>>

\* run: NewEncryptor and NewCloudExporter on the configuration LoadConfig
\* returned (run exits when LoadConfig or the read of the key file fails)
DoWireExporter ==
    /\ loaded # NilPtr
    /\ loaded.err = NoErr
    /\ client = NilPtr
    /\ encryptor' = NewEncryptor(loaded.config.Encryption)
    /\ client' = NewCloudExporter(loaded.config.Exporter)
    /\ UNCHANGED <<randReads, file, loaded>>
    /\ UNCHANGED <<sealVars, exportVars, logsVars, runVars>>

NextConfig ==
    \/ DoLoadConfig
    \/ DoWireExporter

SpecConfig == InitConfig /\ [][NextConfig]_vars

----------------------------------------------------------------------------
(* package exporter: logsToJSON *)

MaxNodes == 7   \* resource logs + scope logs + log records of one plog.Logs

\* attribute maps, values already as strings (Value.AsString)
NoAttrs == <<>>
ResourceAttrs == {NoAttrs, [a \in {"host"} |-> "web-1"]}

\* plog.LogRecord values: the timestamp is in nanoseconds, an all-zero trace
\* or span id is the empty string
LogRecords ==
    { [ts |-> 0, sevText |-> "", sevNum |-> 0, body |-> "A",
       attrs |-> NoAttrs, traceID |-> "", spanID |-> ""],
      [ts |-> 1999999, sevText |-> "INFO", sevNum |-> 9, body |-> "B",
       attrs |-> [a \in {"unit"} |-> "sshd"], traceID |-> "0af7651916cd43dd",
       spanID |-> "b7ad6b7169203331"],
      [ts |-> 2000000, sevText |-> "ERROR", sevNum |-> 17, body |-> "C",
       attrs |-> NoAttrs, traceID |-> "", spanID |-> "00f067aa0ba902b7"] }

RECURSIVE SumSeq(_)
SumSeq(q) == IF q = <<>> THEN 0 ELSE Head(q) + SumSeq(Tail(q))

ScopeCount(l) == SumSeq([i \in DOMAIN l |-> Len(l[i].scopes)])
ResourceRecordCount(rl) == SumSeq([j \in DOMAIN rl.scopes |-> Len(rl.scopes[j])])
\* plog.Logs.LogRecordCount
LogRecordCount(l) == SumSeq([i \in DOMAIN l |-> ResourceRecordCount(l[i])])
NodeCount(l) == Len(l) + ScopeCount(l) + LogRecordCount(l)

\* one LogRecord of the batch as encoding/json writes it: a key tagged
\* omitempty is left out when its map is empty or its string is ""
ToLogRecord(rec, resource) ==
    [timestamp   |-> rec.ts \div 1000000,
     severity    |-> rec.sevText,
     body        |-> rec.body,
     severityNum |-> rec.sevNum]
    @@ (IF DOMAIN rec.attrs = {} THEN <<>> ELSE ("attributes" :> rec.attrs))
    @@ (IF DOMAIN resource = {} THEN <<>> ELSE ("resource" :> resource))
    @@ (IF rec.traceID = "" THEN <<>> ELSE ("traceId" :> rec.traceID))
    @@ (IF rec.spanID = "" THEN <<>> ELSE ("spanId" :> rec.spanID))

\* the loop over the log records of one scope
ScopeRecords(scope, resource) ==
    [k \in DOMAIN scope |-> ToLogRecord(scope[k], resource)]

\* the loop over the scopes of one resource
RECURSIVE ResourceRecords(_, _)
ResourceRecords(scopes, resource) ==
    IF scopes = <<>> THEN <<>>
    ELSE ScopeRecords(Head(scopes), resource)
         \o ResourceRecords(Tail(scopes), resource)

\* the loop over the resource logs
RECURSIVE BatchRecords(_)
BatchRecords(l) ==
    IF l = <<>> THEN <<>>
    ELSE ResourceRecords(Head(l).scopes, Head(l).attrs) \o BatchRecords(Tail(l))

Reverse(q) == [i \in DOMAIN q |-> q[Len(q) + 1 - i]]

\* logsToJSON putting each record in front of those it has converted
logsToJSONPrepending(l) ==
    [err |-> NoErr, batch |-> [records |-> Reverse(BatchRecords(l))]]

\* the JSON object logsToJSON marshals, and its (always nil) error
logsToJSON(l) ==
    [err |-> NoErr, batch |-> [records |-> BatchRecords(l)]]

InitLogs ==
    /\ encryptor = NilPtr
    /\ randReads = 0
    /\ input = <<>> /\ sealLog = <<>> /\ lastOpen = NoOpen
    /\ endpoint = <<>> /\ calls = <<>> /\ sent = <<>> /\ received = <<>>
    /\ logs = <<>>
    /\ jsonOut = NilPtr
    /\ ConfigIdle /\ RunIdle

\* the caller builds the logs: ResourceLogs().AppendEmpty()
AppendResource ==
    /\ jsonOut = NilPtr
    /\ NodeCount(logs) < MaxNodes
    /\ \E attrs \in ResourceAttrs :
          logs' = Append(logs, [attrs |-> attrs, scopes |-> <<>>])
    /\ UNCHANGED <<encryptor, randReads, jsonOut>>
    /\ UNCHANGED <<sealVars, exportVars, configVars, runVars>>

\* ScopeLogs().AppendEmpty() on the last resource
AppendScope ==
    /\ jsonOut = NilPtr
    /\ NodeCount(logs) < MaxNodes
    /\ logs # <<>>
    /\ logs' = [logs EXCEPT ![Len(logs)].scopes = Append(@, <<>>)]
    /\ UNCHANGED <<encryptor, randReads, jsonOut>>
    /\ UNCHANGED <<sealVars, exportVars, configVars, runVars>>

\* LogRecords().AppendEmpty() on the last scope of the last resource
AppendRecord ==
    /\ jsonOut = NilPtr
    /\ NodeCount(logs) < MaxNodes
    /\ logs # <<>>
    /\ logs[Len(logs)].scopes # <<>>
    /\ \E rec \in LogRecords :
          logs' = [logs EXCEPT
                      ![Len(logs)].scopes[Len(logs[Len(logs)].scopes)] = Append(@, rec)]
    /\ UNCHANGED <<encryptor, randReads, jsonOut>>
    /\ UNCHANGED <<sealVars, exportVars, configVars, runVars>>

\* ConsumeLogs: e.logsToJSON(logs)
DoLogsToJSON ==
    /\ jsonOut = NilPtr
    /\ jsonOut' = logsToJSON(logs)
    /\ UNCHANGED <<encryptor, randReads, logs>>
    /\ UNCHANGED <<sealVars, exportVars, configVars, runVars>>

NextLogs ==
    \/ AppendResource
    \/ AppendScope
    \/ AppendRecord
    \/ DoLogsToJSON

SpecLogs == InitLogs /\ [][NextLogs]_vars

----------------------------------------------------------------------------
(* package collector: Collector.Shutdown *)

\* the keys of the three component maps of a Collector
ReceiverNames == {"filelog", "journald"}
ProcessorNames == {"batch"}
ExporterNames == {"cloud", "debug"}

Registries ==
    [receivers : SUBSET ReceiverNames,
     processors : SUBSET ProcessorNames,
     exporters : SUBSET ExporterNames]

\* what a component's Shutdown may return
ShutdownResults == {NoErr, Errorf("shutdown failed", 0)}

\* the names of one group whose Shutdown has been called
ShutDown(group) ==
    {shutLog[n].name : n \in {m \in DOMAIN shutLog : shutLog[m].group = group}}

ComponentCall(group, name, err) ==
    [group |-> group, name |-> name, err |-> err, ctxDone |-> ctxDone]

\* Collector.Shutdown has been entered on a Collector holding any
\* components, with a context that is cancelled or not
InitShutdown ==
    /\ encryptor = NilPtr
    /\ randReads = 0
    /\ input = <<>> /\ sealLog = <<>> /\ lastOpen = NoOpen
    /\ endpoint = <<>> /\ calls = <<>> /\ sent = <<>> /\ received = <<>>
    /\ ConfigIdle /\ LogsIdle
    /\ registry \in Registries
    /\ runPc = "shutdown"
    /\ ctxDone \in BOOLEAN
    /\ shutLog = <<>>
    /\ shutRet = NilPtr

\* one pass of the first loop: range over c.exporters, in any order; an
\* error is logged and the loop goes on
ShutdownExporter ==
    /\ runPc = "shutdown"
    /\ \E name \in registry.exporters \ ShutDown("exporter") :
          \E err \in ShutdownResults :
             shutLog' = Append(shutLog, ComponentCall("exporter", name, err))
    /\ UNCHANGED <<encryptor, randReads, registry, runPc, ctxDone, shutRet>>
    /\ UNCHANGED <<sealVars, exportVars, configVars, logsVars>>

\* the loop over c.processors running alongside the loop over c.exporters
ShutdownProcessorEarly ==
    /\ runPc = "shutdown"
    /\ \E name \in registry.processors \ ShutDown("processor") :
          \E err \in ShutdownResults :
             shutLog' = Append(shutLog, ComponentCall("processor", name, err))
    /\ UNCHANGED <<encryptor, randReads, registry, runPc, ctxDone, shutRet>>
    /\ UNCHANGED <<sealVars, exportVars, configVars, logsVars>>

\* one pass of the second loop: range over c.processors
ShutdownProcessor ==
    /\ runPc = "shutdown"
    /\ registry.exporters \subseteq ShutDown("exporter")
    /\ \E name \in registry.processors \ ShutDown("processor") :
          \E err \in ShutdownResults :
             shutLog' = Append(shutLog, ComponentCall("processor", name, err))
    /\ UNCHANGED <<encryptor, randReads, registry, runPc, ctxDone, shutRet>>
    /\ UNCHANGED <<sealVars, exportVars, configVars, logsVars>>

\* one pass of the third loop: range over c.receivers
ShutdownReceiver ==
    /\ runPc = "shutdown"
    /\ registry.exporters \subseteq ShutDown("exporter")
    /\ registry.processors \subseteq ShutDown("processor")
    /\ \E name \in registry.receivers \ ShutDown("receiver") :
          \E err \in ShutdownResults :
             shutLog' = Append(shutLog, ComponentCall("receiver", name, err))
    /\ UNCHANGED <<encryptor, randReads, registry, runPc, ctxDone, shutRet>>
    /\ UNCHANGED <<sealVars, exportVars, configVars, logsVars>>

\* Shutdown returning the error of a component as soon as it meets one
ReturnShutdownOnError ==
    /\ runPc = "shutdown"
    /\ LET over == /\ registry.exporters \subseteq ShutDown("exporter")
                    /\ registry.processors \subseteq ShutDown("processor")
                    /\ registry.receivers \subseteq ShutDown("receiver")
           failed == shutLog # <<>> /\ shutLog[Len(shutLog)].err # NoErr
       IN  /\ over \/ failed
           /\ shutRet' = IF failed THEN shutLog[Len(shutLog)].err ELSE NoErr
    /\ runPc' = "returned"
    /\ UNCHANGED <<encryptor, randReads, registry, ctxDone, shutLog>>
    /\ UNCHANGED <<sealVars, exportVars, configVars, logsVars>>

\* return nil, once the three loops are over
ReturnShutdown ==
    /\ runPc = "shutdown"
    /\ registry.exporters \subseteq ShutDown("exporter")
    /\ registry.processors \subseteq ShutDown("processor")
    /\ registry.receivers \subseteq ShutDown("receiver")
    /\ runPc' = "returned"
    /\ shutRet' = NoErr
    /\ UNCHANGED <<encryptor, randReads, registry, ctxDone, shutLog>>
    /\ UNCHANGED <<sealVars, exportVars, configVars, logsVars>>

NextShutdown ==
    \/ ShutdownExporter
    \/ ShutdownProcessor
    \/ ShutdownReceiver
    \/ ReturnShutdown

SpecShutdown == InitShutdown /\ [][NextShutdown]_vars

----------------------------------------------------------------------------
(* package main: run *)

\* run starts with the file at configPath and nothing built
InitRun == InitConfig

\* log.Fatalf when LoadConfig failed: the process exits
RunFatal ==
    /\ runPc = "idle"
    /\ loaded # NilPtr
    /\ loaded.err # NoErr
    /\ runPc' = "fatal"
    /\ UNCHANGED <<encryptor, randReads, registry, ctxDone, shutLog, shutRet>>
    /\ UNCHANGED <<sealVars, exportVars, configVars, logsVars>>

\* collector.NewCollector: the three maps are made empty
RunNewCollector ==
    /\ runPc = "idle"
    /\ client # NilPtr
    /\ registry' = EmptyRegistry
    /\ runPc' = "created"
    /\ UNCHANGED <<encryptor, randReads, ctxDone, shutLog, shutRet>>
    /\ UNCHANGED <<sealVars, exportVars, configVars, logsVars>>

\* context.WithCancel, then col.Start(ctx), which registers no component
RunStart ==
    /\ runPc = "created"
    /\ ctxDone' = FALSE
    /\ runPc' = "waiting"
    /\ UNCHANGED <<encryptor, randReads, registry, shutLog, shutRet>>
    /\ UNCHANGED <<sealVars, exportVars, configVars, logsVars>>

\* s := <-sigCh
RunSignal ==
    /\ runPc = "waiting"
    /\ runPc' = "signalled"
    /\ UNCHANGED <<encryptor, randReads, registry, ctxDone, shutLog, shutRet>>
    /\ UNCHANGED <<sealVars, exportVars, configVars, logsVars>>

\* cancel()
RunCancel ==
    /\ runPc = "signalled"
    /\ ctxDone' = TRUE
    /\ runPc' = "cancelled"
    /\ UNCHANGED <<encryptor, randReads, registry, shutLog, shutRet>>
    /\ UNCHANGED <<sealVars, exportVars, configVars, logsVars>>

\* col.Shutdown(ctx) is entered
RunShutdown ==
    /\ runPc = "cancelled"
    /\ runPc' = "shutdown"
    /\ UNCHANGED <<encryptor, randReads, registry, ctxDone, shutLog, shutRet>>
    /\ UNCHANGED <<sealVars, exportVars, configVars, logsVars>>

\* "LogNarrator collector stopped": run returns
RunStopped ==
    /\ runPc = "returned"
    /\ runPc' = "stopped"
    /\ UNCHANGED <<encryptor, randReads, registry, ctxDone, shutLog, shutRet>>
    /\ UNCHANGED <<sealVars, exportVars, configVars, logsVars>>

\* the maps of the Collector of run are empty, so the loops of Shutdown
\* make no pass
NextRun ==
    \/ DoLoadConfig
    \/ RunFatal
    \/ DoWireExporter
    \/ RunNewCollector
    \/ RunStart
    \/ RunSignal
    \/ RunCancel
    \/ RunShutdown
    \/ ReturnShutdown
    \/ RunStopped

SpecRun == InitRun /\ [][NextRun]_vars

----------------------------------------------------------------------------
(* package main and package exporter: the process crashes and is started   *)
(* again                                                                   *)

\* the process is up: run stands at <-sigCh, the exporter is built as in
\* InitExport
InitCrash ==
    /\ encryptor \in {NewEncryptor(cfg) : cfg \in EncryptionConfig}
    /\ randReads = 0
    /\ input = <<>> /\ sealLog = <<>> /\ lastOpen = NoOpen
    /\ endpoint \in SeqsUpTo(Responses, MaxScript)
    /\ calls = <<>> /\ sent = <<>> /\ received = <<>>
    /\ ConfigIdle /\ LogsIdle
    /\ registry = EmptyRegistry
    /\ runPc = "waiting"
    /\ ctxDone = FALSE
    /\ shutLog = <<>>
    /\ shutRet = NilPtr

\* ConsumeLogs and client.Do run only while the process is up
ConsumeLogsUp == runPc = "waiting" /\ ConsumeLogs
ClientDoUp == runPc = "waiting" /\ ClientDo

\* the process dies: every ConsumeLogs call waiting in client.Do is gone
\* with its goroutine.  ConsumeLogs wrote the batch to no file
\* (cfg.LocalCachePath and cfg.MaxQueueSize are never read).
Crash ==
    /\ runPc = "waiting"
    /\ runPc' = "crashed"
    /\ calls' = [c \in DOMAIN calls |->
                    IF calls[c].pc = "do" THEN [calls[c] EXCEPT !.pc = "crashed"]
                    ELSE calls[c]]
    /\ UNCHANGED <<encryptor, randReads, endpoint, sent, received>>
    /\ UNCHANGED <<registry, ctxDone, shutLog, shutRet>>
    /\ UNCHANGED <<sealVars, configVars, logsVars>>

\* the process is started again: run builds the Encryptor and the exporter
\* from the same configuration; NewCloudExporter makes an http.Client and
\* reads no stored batch, so nothing is sent
Restart ==
    /\ runPc = "crashed"
    /\ runPc' = "waiting"
    /\ UNCHANGED <<encryptor, randReads, endpoint, calls, sent, received>>
    /\ UNCHANGED <<registry, ctxDone, shutLog, shutRet>>
    /\ UNCHANGED <<sealVars, configVars, logsVars>>

NextCrash ==
    \/ ConsumeLogsUp
    \/ ClientDoUp
    \/ Crash
    \/ Restart

SpecCrash == InitCrash /\ [][NextCrash]_vars

----------------------------------------------------------------------------
(* package exporter: ConsumeLogs on the exporter run has built, with the   *)
(* logs it is handed                                                       *)

\* configuration files LoadConfig accepts, one per setting of
\* encryption.enabled and encryption.algorithm
WiredFiles ==
    {f \in Files :
        /\ f.kind = "yaml"
        /\ LoadConfig(f).err = NoErr
        /\ f.config.Encryption.KeyPath = "client.key"
        /\ f.config.Encryption.ClientID = "client-1"
        /\ f.config.Encryption.KeyRotation = 0
        /\ f.config.Exporter.Timeout = 5
        /\ f.config.Exporter.RetryMaxCount = 0
        /\ f.config.Exporter.TLSVerify
        /\ DOMAIN f.config.Collector.Pipelines = {"logs"}}

\* plog.Logs values of one resource with one scope
SampleLogs ==
    { <<[attrs |-> NoAttrs, scopes |-> << <<rec>> >>]>> : rec \in LogRecords }
    \cup { <<[attrs |-> NoAttrs, scopes |-> << <<a, b>> >>]>> :
              a \in LogRecords, b \in {r \in LogRecords : r.body = "A"} }

EndpointScripts == {<<>>, <<404>>, <<NetErr>>, <<503, 200>>}

\* run has loaded the file and built the Encryptor and the exporter; a
\* caller holds the logs it is about to hand to ConsumeLogs
InitConsume ==
    /\ file \in WiredFiles
    /\ loaded = LoadConfig(file)
    /\ encryptor = NewEncryptor(loaded.config.Encryption)
    /\ client = NewCloudExporter(loaded.config.Exporter)
    /\ randReads = 0
    /\ input = <<>> /\ sealLog = <<>> /\ lastOpen = NoOpen
    /\ endpoint \in EndpointScripts
    /\ calls = <<>> /\ sent = <<>> /\ received = <<>>
    /\ logs \in SampleLogs
    /\ jsonOut = NilPtr
    /\ RunIdle

SpecConsume == InitConsume /\ [][Next]_vars

----------------------------------------------------------------------------
(* Properties of the sealing engine, checked under SpecSeal *)

\* C1: Round-trip fidelity.  Decrypt of an envelope exactly as Encrypt
\* returned it succeeds and returns the bytes that were handed to Encrypt,
\* for either algorithm and with compression on or off.
RoundTrip ==
    lastOpen.how = "intact" =>
        /\ lastOpen.r.err = NoErr
        /\ lastOpen.r.data = sealLog[lastOpen.src].data

\* an envelope of a two-byte input (one padded quantum), sealed under
\* AES-256-GCM with compression on, has been decrypted
RoundTripWitness ==
    /\ lastOpen.how = "intact"
    /\ Len(sealLog[lastOpen.src].data) = 2
    /\ lastOpen.env.Compressed
    /\ lastOpen.env.Algorithm = "AES-256-GCM"
    /\ lastOpen.r.err = NoErr

\* C2: Tamper detection.  Decrypt of an envelope whose payload differs in one
\* bit from the one Encrypt returned gives an error, never data.
TamperDetected ==
    lastOpen.how = "mutated" => lastOpen.r.err # NoErr

\* C3: Payload confidentiality.  Decoding the payload of an envelope without
\* any key never yields the plaintext that was sealed (stated for the
\* envelopes of a non-empty plaintext, which have something to hide).
PayloadOpaque ==
    \A i \in Sealed :
        sealLog[i].data # <<>> =>
            LET d == DecodeString(sealLog[i].r.env.Data)
            IN  ~(d.ok /\ d.bytes = sealLog[i].data)

\* C9: Unseal rejects unknown metadata.  Decrypt of an envelope whose
\* algorithm is not a supported identifier, or whose version is not the
\* supported format version, gives an error whatever the payload holds.
UnknownMetadataRejected ==
    (/\ lastOpen.how # "none"
     /\ \/ lastOpen.env.Algorithm \notin ValidAlgorithms
        \/ lastOpen.env.Version # FormatVersion)
    => lastOpen.r.err # NoErr

\* C10: Nonce freshness.  Every Encrypt call on one Encryptor seals under the
\* nonce it read from crypto/rand in that very call: the nonce of envelope i
\* is the block of the i-th read of the source, so no two envelopes of the
\* same key carry the same nonce.
NonceFresh ==
    /\ \A i \in Sealed : sealLog[i].r.env.Nonce.bytes.block = i
    /\ \A i, j \in Sealed :
          i # j => sealLog[i].r.env.Nonce # sealLog[j].r.env.Nonce

\* the same input has been sealed twice under one key
NonceFreshWitness ==
    \E i, j \in Sealed : i # j /\ sealLog[i].data = sealLog[j].data

\* C11: Nonce shape follows the algorithm.  In every envelope Encrypt
\* returns, the nonce has the size the envelope's algorithm fixes: 24 bytes
\* for XChaCha20-Poly1305, 12 bytes for AES-256-GCM, and none for an
\* algorithm that only signs.
NonceShape ==
    \A i \in Sealed :
        LET env == sealLog[i].r.env
        IN  env.Nonce.bytes.size =
                (IF env.Algorithm = "XChaCha20-Poly1305" THEN 24
                 ELSE IF env.Algorithm = "AES-256-GCM" THEN 12
                 ELSE 0)

----------------------------------------------------------------------------
(* Properties of the exporter, checked under Spec *)

Done(c) == calls[c].pc = "done"
Requests(c) == {k \in DOMAIN sent : sent[k].call = c}
Is2xx(resp) == resp >= 200 /\ resp <= 299
Is4xx(resp) == resp >= 400 /\ resp <= 499
Is5xx(resp) == resp >= 500 /\ resp <= 599
\* the endpoint answered call c with a 2xx: the batch is ingested
Deliveries(c) == {k \in DOMAIN received : received[k].call = c /\ Is2xx(received[k].status)}

\* C4: Fail closed.  When sealing the batch fails inside ConsumeLogs no HTTP
\* request carrying that batch is sent, sealed or unsealed, and ConsumeLogs
\* returns an error.
FailClosed ==
    \A c \in DOMAIN calls :
        calls[c].sealErr # NoErr =>
            /\ Done(c)
            /\ calls[c].err # NoErr
            /\ Requests(c) = {}

\* sealing failed in one call on a failed read of crypto/rand, while another
\* call of the same exporter did send its batch
FailClosedWitness ==
    \E c, d \in DOMAIN calls :
        /\ calls[c].sealErr.msg = "failed to generate nonce"
        /\ Done(c)
        /\ Requests(d) # {}

\* C5: Retry on transient failure.  When the endpoint answers 503 to the
\* first k attempts of a batch (0 < k < RetryMaxCount) and 200 afterwards,
\* ConsumeLogs ends with the batch delivered, and delivered exactly once.
\* With a single call made, the endpoint answered its first attempt 503 and
\* has only 503s left, fewer than RetryMaxCount in all, before it answers 200.
RetriedUntilDelivered ==
    (/\ Len(calls) = 1
     /\ Done(1)
     /\ Requests(1) # {}
     /\ calls[1].resp = 503
     /\ \A k \in DOMAIN endpoint : endpoint[k] = 503
     /\ Len(endpoint) + 1 < RetryMaxCount)
    => /\ calls[1].err = NoErr
       /\ Cardinality(Deliveries(1)) = 1

\* a delivery attempt of call c failed with a network error, a timeout or a 5xx
TransientFailure(c) ==
    /\ Done(c)
    /\ Requests(c) # {}
    /\ calls[c].resp = NetErr \/ Is5xx(calls[c].resp)

\* the exporter still holds the batch of call c: the batch lives in the
\* locals of the ConsumeLogs frame only, no field of CloudExporter stores it
Held(c) == ~Done(c)

\* C6: No abandonment on transient failure.  A batch whose delivery attempt
\* failed with a network error, timeout or 5xx is still held by the client
\* for a later attempt.
TransientKept ==
    \A c \in DOMAIN calls : TransientFailure(c) => Held(c)

\* C7: Failure classification.  The error ConsumeLogs reports for a 4xx
\* response (other than 429) is of another class than the one it reports for
\* a 5xx response, and a batch that failed with such a 4xx is sent only once.
FailureClassified ==
    \A c, d \in DOMAIN calls :
        (/\ Done(c) /\ Requests(c) # {} /\ Is4xx(calls[c].resp) /\ calls[c].resp # 429
         /\ Done(d) /\ Requests(d) # {} /\ Is5xx(calls[d].resp))
        => /\ calls[c].err.msg # calls[d].err.msg
           /\ Cardinality(Requests(c)) = 1

\* C8: Success means 2xx.  A ConsumeLogs call that sent its request returns
\* nil exactly when the response status is in 200..299; every other status
\* and every network error gives an error.
SuccessMeans2xx ==
    \A c \in DOMAIN calls :
        (Done(c) /\ Requests(c) # {}) =>
            (calls[c].err = NoErr <=> Is2xx(calls[c].resp))

\* needle occurs in hay as a run of consecutive elements
Contains(hay, needle) ==
    \E at \in 0..(Len(hay) - Len(needle)) :
        \A k \in 1..Len(needle) : hay[at + k] = needle[k]

\* C13: Private key never leaves the client.  No request ConsumeLogs sends
\* carries the private key NewEncryptor loaded: the payload holds it neither
\* as text, nor in base64, nor once decoded; the nonce is a block of
\* crypto/rand; the client id and algorithm are those of the configuration;
\* the headers are the two fixed strings.
PrivateKeyStaysHome ==
    \A k \in DOMAIN sent :
        encryptor.privateKey # <<>> =>
            LET key == encryptor.privateKey
                obj == sent[k].body.json
            IN  /\ ~Contains(obj.data, key)
                /\ ~Contains(obj.data, EncodeToString(key))
                /\ ~Contains(DecodeString(obj.data).bytes, key)
                /\ obj.nonce.bytes.block \in 1..randReads
                /\ obj.clientId = encryptor.cfg.ClientID
                /\ obj.algorithm = encryptor.cfg.Algorithm
                /\ sent[k].contentType = ContentTypeSealed
                /\ sent[k].userAgent = UserAgent

\* an exporter whose Encryptor holds a key has sent two sealed batches, one
\* of them not empty
PrivateKeyStaysHomeWitness ==
    /\ encryptor.privateKey = PrivateKeyFile
    /\ Len(sent) >= 2
    /\ \E k \in DOMAIN sent : Len(DecodeString(sent[k].body.json.data).bytes) > 0

\* C14: Content type matches sealing.  A request ConsumeLogs sends has
\* Content-Type application/json+encrypted exactly when its body is the JSON
\* of a sealed envelope, and application/json exactly when its body is the
\* raw batch JSON.  Checked under SpecDirect, where the Encryptor may be nil.
ContentTypeMatches ==
    \A k \in DOMAIN sent :
        /\ sent[k].contentType = ContentTypeSealed <=> "json" \in DOMAIN sent[k].body
        /\ sent[k].contentType = ContentTypeRaw <=>
              /\ "raw" \in DOMAIN sent[k].body
              /\ sent[k].body.raw = calls[sent[k].call].logData

\* an exporter without Encryptor has sent a non-empty batch unsealed
ContentTypeMatchesWitness ==
    \E k \in DOMAIN sent :
        /\ encryptor = NilPtr
        /\ sent[k].contentType = ContentTypeRaw
        /\ calls[sent[k].call].logData # <<>>

\* C15: Wire envelope shape.  The JSON object sent for a sealed batch has
\* exactly the keys client_id, timestamp, version, algorithm, nonce, data,
\* compressed, and its timestamp is in unix seconds.
WireEnvelopeShape ==
    \A k \in DOMAIN sent :
        "json" \in DOMAIN sent[k].body =>
            /\ DOMAIN sent[k].body.json =
                  {"client_id", "timestamp", "version", "algorithm",
                   "nonce", "data", "compressed"}
            /\ sent[k].body.json.timestamp \in UnixTimes

----------------------------------------------------------------------------
(* Properties of the configuration, checked under SpecConfig *)

\* the file sets everything validateConfig asks of an enabled encryption, of
\* the exporter and of the pipelines, the algorithm aside
ValidButAlgorithm(c) ==
    /\ c.Encryption.Enabled
    /\ c.Encryption.KeyPath # ""
    /\ c.Encryption.ClientID # ""
    /\ c.Exporter.Endpoint # ""
    /\ DOMAIN c.Collector.Pipelines # {}
    /\ \A name \in DOMAIN c.Collector.Pipelines :
          Len(c.Collector.Pipelines[name].Receivers) > 0

\* C12: Both sealing families are selectable.  LoadConfig accepts an
\* otherwise valid configuration with encryption enabled whether its
\* algorithm is of the signing family (nacl.signing) or of the authenticated
\* encryption family (XChaCha20-Poly1305, AES-256-GCM).
BothFamiliesSelectable ==
    (/\ loaded # NilPtr
     /\ file.kind = "yaml"
     /\ ValidButAlgorithm(file.config)
     /\ file.config.Encryption.Algorithm
            \in {"nacl.signing", "XChaCha20-Poly1305", "AES-256-GCM"})
    => loaded.err = NoErr

\* C20: Every wait is bounded.  For every configuration LoadConfig accepts,
\* the http.Client the exporter sends with gives each request a deadline a
\* strictly positive, finite time away.
EveryWaitBounded ==
    client # NilPtr =>
        /\ ClientDeadline(client).bounded
        /\ ClientDeadline(client).seconds > 0

----------------------------------------------------------------------------
(* Properties of logsToJSON, checked under SpecLogs *)

\* C16: Batch schema shape.  Every record of the batch JSON has the keys
\* timestamp, severity, severity_num and body, may have attributes,
\* resource, trace_id and span_id, and has no other key; its timestamp is
\* the record's time in epoch milliseconds.
BatchSchemaShape ==
    jsonOut # NilPtr =>
        \A n \in DOMAIN jsonOut.batch.records :
            LET keys == DOMAIN jsonOut.batch.records[n]
            IN  /\ {"timestamp", "severity", "severity_num", "body"} \subseteq keys
                /\ keys \subseteq {"timestamp", "severity", "severity_num", "body",
                                   "attributes", "resource", "trace_id", "span_id"}

\* the number of records logsToJSON meets before record k of scope j of
\* resource i
RecordsBefore(i, j, k) ==
    SumSeq([a \in 1..(i - 1) |-> ResourceRecordCount(logs[a])])
    + SumSeq([b \in 1..(j - 1) |-> Len(logs[i].scopes[b])])
    + (k - 1)

\* C17: Order and count preservation.  logsToJSON emits one record per input
\* log record, and the record at place k of scope j of resource i stands in
\* the batch right after all records of earlier resources, of earlier scopes
\* of resource i, and of earlier places of scope j.
OrderAndCountPreserved ==
    jsonOut # NilPtr =>
        /\ Len(jsonOut.batch.records) = LogRecordCount(logs)
        /\ \A i \in DOMAIN logs :
              \A j \in DOMAIN logs[i].scopes :
                 \A k \in DOMAIN logs[i].scopes[j] :
                    LET at == RecordsBefore(i, j, k) + 1
                        rec == logs[i].scopes[j][k]
                    IN  /\ at \in DOMAIN jsonOut.batch.records
                        /\ jsonOut.batch.records[at].body = rec.body
                        /\ jsonOut.batch.records[at].severity = rec.sevText
                        /\ jsonOut.batch.records[at].timestamp = rec.ts \div 1000000

\* logs of two resources, the first with two scopes, each resource holding
\* a record and all records of different bodies, have been converted
OrderAndCountPreservedWitness ==
    /\ jsonOut # NilPtr
    /\ Len(logs) = 2
    /\ Len(logs[1].scopes) = 2
    /\ LogRecordCount(logs) >= 2
    /\ \A n, q \in DOMAIN jsonOut.batch.records :
          n # q => jsonOut.batch.records[n].body # jsonOut.batch.records[q].body
    /\ ResourceRecordCount(logs[1]) >= 1
    /\ ResourceRecordCount(logs[2]) >= 1

----------------------------------------------------------------------------
(* Properties of shutdown, checked under SpecShutdown and SpecRun *)

GraceAtShutdown ==
    runPc = "shutdown" => ~ctxDone

----------------------------------------------------------------------------
(* Properties of delivery across crashes and calls, checked under          *)
(* SpecCrash and Spec                                                      *)

\* the requests put on the wire for call c
Offers(c) == {n \in DOMAIN sent : sent[n].call = c}

\* C21: Crash durability.  Once the process is up again after a crash, every
\* batch that was handed to client.Do and not yet answered when the process
\* died has been offered for delivery once more: exactly one request besides
\* the one of the dead process carries it.
CrashDurable ==
    runPc = "waiting" =>
        \A c \in DOMAIN calls :
            calls[c].pc = "crashed" => Cardinality(Offers(c)) = 2

\* C22: FIFO delivery per client.  Whenever the endpoint receives the batch
\* of a call, it has received before it the batch of every earlier call
\* whose batch was sealed.
FifoDelivery ==
    \A n \in DOMAIN received :
        \A c \in 1..(received[n].call - 1) :
            calls[c].sealErr = NoErr =>
                \E m \in 1..(n - 1) : received[m].call = c

----------------------------------------------------------------------------
(* Frame of ConsumeLogs, checked under SpecConsume *)

\* C23: Exporter does not mutate its input.  A step of ConsumeLogs, up to
\* the request or to the return on the answer, failing or not, leaves the
\* logs it was given as they were, and leaves the exporter's configuration,
\* Encryptor and http.Client as they were.
ExporterFrame ==
    [][(ConsumeLogs \/ ClientDo) =>
          /\ logs' = logs
          /\ loaded' = loaded
          /\ encryptor' = encryptor
          /\ client' = client]_vars

\* ConsumeLogs has returned an error on one call and nil on another, with
\* logs that hold records
ExporterFrameWitness ==
    /\ LogRecordCount(logs) > 0
    /\ client # NilPtr
    /\ \E c \in DOMAIN calls : calls[c].pc = "done" /\ calls[c].err # NoErr
    /\ \E c \in DOMAIN calls : calls[c].pc = "done" /\ calls[c].err = NoErr

----------------------------------------------------------------------------
(* The compressed flag, checked under SpecSeal *)

\* the payload of envelope i is built from the data as Encrypt was given
\* them, byte for byte
PayloadOfOriginal(i) ==
    DecodeString(sealLog[i].r.env.Data) = [ok |-> TRUE, bytes |-> sealLog[i].data]

\* C24: Compressed flag is truthful.  In every envelope Encrypt returned,
\* compressed is true exactly when the payload was built from a compressed
\* form of the data and not from the data themselves.
CompressedTruthful ==
    \A i \in Sealed :
        sealLog[i].r.env.Compressed <=> ~PayloadOfOriginal(i)

----------------------------------------------------------------------------
(* Collector.Shutdown as it is written, checked under SpecShutdown *)

\* the names of one group shut down before call n of the log
ShutDownBefore(group, n) ==
    {shutLog[m].name : m \in {q \in 1..(n - 1) : shutLog[q].group = group}}

\* C25: Shutdown order as coded.  When Shutdown is called on a processor
\* every registered exporter has been shut down, and when it is called on a
\* receiver every registered processor has been shut down.
ShutdownOrderAsCoded ==
    \A n \in DOMAIN shutLog :
        /\ shutLog[n].group = "processor" =>
              registry.exporters \subseteq ShutDownBefore("exporter", n)
        /\ shutLog[n].group = "receiver" =>
              registry.processors \subseteq ShutDownBefore("processor", n)

\* Shutdown has returned on a Collector holding two exporters, a processor
\* and a receiver
ShutdownOrderAsCodedWitness ==
    /\ runPc = "returned"
    /\ Cardinality(registry.exporters) = 2
    /\ registry.processors # {}
    /\ registry.receivers # {}
    /\ Len(shutLog) >= 4

Registered ==
    {<<"exporter", name>> : name \in registry.exporters}
    \cup {<<"processor", name>> : name \in registry.processors}
    \cup {<<"receiver", name>> : name \in registry.receivers}

\* C26: Shutdown is not aborted by a failing component.  Whatever the
\* components return, Shutdown is called on no component twice and on
\* registered components only, and once Collector.Shutdown has returned it
\* has been called on every registered component and the return is nil.
ShutdownNotAborted ==
    /\ \A n \in DOMAIN shutLog : <<shutLog[n].group, shutLog[n].name>> \in Registered
    /\ \A n, m \in DOMAIN shutLog :
          (shutLog[n].group = shutLog[m].group /\ shutLog[n].name = shutLog[m].name)
             => n = m
    /\ runPc = "returned" =>
          /\ Registered = {<<shutLog[n].group, shutLog[n].name>> : n \in DOMAIN shutLog}
          /\ shutRet = NoErr

\* Shutdown has returned after the first component it shut down returned an
\* error and two more components were shut down after it
ShutdownNotAbortedWitness ==
    /\ runPc = "returned"
    /\ Len(shutLog) >= 3
    /\ shutLog[1].err # NoErr
    /\ shutLog[Len(shutLog)].err = NoErr

----------------------------------------------------------------------------
(* Validation and defaults of the configuration, checked under SpecConfig *)

\* the file sets an endpoint, defines a pipeline, and gives every pipeline
\* a receiver
StructurallySound(c) ==
    /\ c.Exporter.Endpoint # ""
    /\ DOMAIN c.Collector.Pipelines # {}
    /\ \A name \in DOMAIN c.Collector.Pipelines :
          Len(c.Collector.Pipelines[name].Receivers) >= 1

\* C27: Structural config validation.  LoadConfig returns either a
\* configuration and no error or an error and no configuration, and it
\* returns a configuration only for a file whose exporter.endpoint is
\* non-empty, that defines a pipeline, and whose pipelines all list a
\* receiver.
StructuralValidation ==
    loaded # NilPtr =>
        /\ (loaded.err = NoErr) <=> (loaded.config # NilPtr)
        /\ loaded.err = NoErr =>
              /\ file.kind = "yaml"
              /\ StructurallySound(file.config)

\* LoadConfig has refused a file that is sound but for its second pipeline,
\* which lists no receiver
StructuralValidationWitness ==
    /\ loaded # NilPtr
    /\ file.kind = "yaml"
    /\ file.config.Exporter.Endpoint # ""
    /\ DOMAIN file.config.Collector.Pipelines = {"logs", "audit"}
    /\ loaded.err # NoErr
    /\ ~file.config.Encryption.Enabled

\* the algorithm of the file, an empty one taken as the default, is one of
\* the two valid ones whatever the case of its letters
AlgorithmAccepted(c) ==
    LET alg == IF c.Encryption.Algorithm = "" THEN "XChaCha20-Poly1305"
               ELSE c.Encryption.Algorithm
    IN  Fold(alg) \in {"xchacha20-poly1305", "aes-256-gcm"}

\* C28: Encryption config validation.  With encryption.enabled true,
\* LoadConfig succeeds only if keyPath and clientId are non-empty and the
\* algorithm, defaulted when empty, is XChaCha20-Poly1305 or AES-256-GCM in
\* any letter case; with encryption.enabled false the three fields are not
\* looked at: LoadConfig succeeds exactly when the file is structurally
\* sound.
EncryptionValidation ==
    (loaded # NilPtr /\ file.kind = "yaml") =>
        /\ (file.config.Encryption.Enabled /\ loaded.err = NoErr) =>
              /\ file.config.Encryption.KeyPath # ""
              /\ file.config.Encryption.ClientID # ""
              /\ AlgorithmAccepted(file.config)
        /\ ~file.config.Encryption.Enabled =>
              ((loaded.err = NoErr) <=> StructurallySound(file.config))

\* LoadConfig has accepted a file with encryption enabled and the algorithm
\* in lower case
EncryptionValidationWitness ==
    /\ loaded # NilPtr
    /\ loaded.err = NoErr
    /\ file.config.Encryption.Enabled
    /\ file.config.Encryption.Algorithm = "aes-256-gcm"

----------------------------------------------------------------------------
(* Disabled encryption in the program wired by main, checked under Spec *)

====
